---- MODULE Spec2Model ----
(***************************************************************************)
(* Model of the MicroService operator's reconciler                         *)
(* (controllers/microservice_controller.go, latest revision:               *)
(* src/unnamed/part_001).                                                  *)
(*                                                                         *)
(* One controller worker (SetupWithManager uses the controller-runtime     *)
(* default of a single concurrent reconcile) takes identities from a       *)
(* de-duplicating work queue and runs Reconcile.  Reconcile is modelled    *)
(* call by call: every Store Client call (Get, Create) is one atomic step, *)
(* so that users changing MicroService objects interleave with a pass.     *)
(***************************************************************************)
EXTENDS Integers, Sequences, FiniteSets, TLC

VARIABLES
    microservices,  \* MicroService objects held by the store
    deployments,    \* apps/v1 Deployment objects held by the store
    services,       \* v1 Service objects held by the store
    ingresses,      \* extensions/v1beta1 Ingress objects held by the store
    queue,          \* identities pending in the controller's work queue
    pc,             \* position of the worker inside Reconcile
    req,            \* ctrl.Request of the pass in progress
    ms,             \* the MicroService fetched by r.Get
    result,         \* (ctrl.Result, error) returned by the pass
    calls,          \* Store Client calls issued by the pass in progress
    pre,            \* the store's objects of req's identity when the pass began
    faults,         \* store failures injected so far
    changes,        \* changes users have made to MicroService objects so far
    pc2,            \* position of a second worker inside Reconcile
    req2,           \* ctrl.Request of the second worker's pass
    ms2             \* the MicroService the second worker fetched

vars == <<microservices, deployments, services, ingresses, queue, pc, req, ms,
          result, calls, pre, faults, changes, pc2, req2, ms2>>

secondVars == <<pc2, req2, ms2>>

storeVars == <<microservices, deployments, services, ingresses>>

-----------------------------------------------------------------------------
(* Bounds of the model *)

\* Number of transient store failures the environment may inject.
MaxFaults == 2

\* Number of changes users make to MicroService objects (create, update,
\* delete) and other actors make to Deployments (scale).
MaxChanges == 3

\* One namespace: a second one multiplies the reachable states by several
\* hundred and adds no case, since a pass only uses req.Namespace as a key.
Namespaces == {"default"}
Names == {"foo", "bar"}
Images == {"app:1.0", "app:2.0"}
Hosts == {"foo.example.com"}
Secrets == {"", "regcred"}

\* The replica counts another actor sets on a Deployment.
ReplicaCounts == {3}

-----------------------------------------------------------------------------
(* Errors of the Store Client *)

Nil == "nil"
NotFound == "NotFound"
AlreadyExists == "AlreadyExists"
Unavailable == "Unavailable"
Forbidden == "Forbidden"

\* The failures the environment injects into Store Client calls: transient
\* (the store is unreachable) and permanent (the controller lacks the right).
TransientFailures == {Unavailable}
PermanentFailures == {Forbidden}

\* client.IgnoreNotFound: nil for a not-found error, the error itself otherwise.
IgnoreNotFound(err) == IF err = NotFound THEN Nil ELSE err

-----------------------------------------------------------------------------
(* Objects *)

Identities == [namespace : Namespaces, name : Names]

MicroServiceSpecs == [image : Images, host : Hosts, secret : Secrets]

\* ms := &devopsv1.MicroService{}
ZeroMicroService ==
    [namespace |-> "", name |-> "", generation |-> 0,
     spec |-> [image |-> "", host |-> "", secret |-> ""],
     status |-> [condition |-> "", message |-> "", observedGeneration |-> 0]]

\* the zero ctrl.Request, held while the worker is idle
ZeroRequest == [namespace |-> "", name |-> ""]

\* ctrl.Result{}
EmptyResult == [Requeue |-> FALSE, RequeueAfter |-> 0]

NoObjects == [microservices |-> {}, deployments |-> {}, services |-> {}, ingresses |-> {}]

\* The objects of a collection stored under the key (namespace, name).
At(objs, id) == {o \in objs : o.namespace = id.namespace /\ o.name = id.name}

Exists(objs, id) == At(objs, id) # {}

\* Whether an object carries an owner link to the MicroService of identity id.
\* (ObjectMeta.OwnerReferences; the objects live in their owner's namespace.)
OwnedBy(o, id) ==
    /\ o.namespace = id.namespace
    /\ \E i \in 1..Len(o.ownerReferences) :
          o.ownerReferences[i] = [kind |-> "MicroService", name |-> id.name]

\* podLabels := map[string]string{"app": req.Name}
PodLabels(r) == [app |-> r.name]

-----------------------------------------------------------------------------
(* The desired objects Reconcile builds *)

ContainerPort == 8080
ServicePort == 80
ServiceTargetPort == 8080
IngressBackendPort == 80

\* deployment := appv1.Deployment{...}; Spec.Replicas is left unset (0 here)
BuildDeployment(r, m) ==
    [kind |-> "Deployment",
     apiVersion |-> "apps/v1",
     name |-> r.name,
     namespace |-> r.namespace,
     ownerReferences |-> << >>,
     replicas |-> 0,
     selector |-> PodLabels(r),
     templateLabels |-> PodLabels(r),
     imagePullSecrets |-> << [name |-> m.spec.secret] >>,
     containers |-> << [name |-> r.name,
                        image |-> m.spec.image,
                        imagePullPolicy |-> "Always",
                        ports |-> << [containerPort |-> ContainerPort] >>] >>]

\* A Service whose target port repeats its own port instead of the container's.
BuildServiceOntoServicePort(r) ==
    [kind |-> "Service",
     apiVersion |-> "v1",
     name |-> r.name,
     namespace |-> r.namespace,
     ownerReferences |-> << >>,
     selector |-> PodLabels(r),
     ports |-> << [name |-> r.name,
                   port |-> ServicePort,
                   targetPort |-> ServicePort,
                   protocol |-> "TCP"] >>]

\* service := corev1.Service{...}
BuildService(r) ==
    [kind |-> "Service",
     apiVersion |-> "v1",
     name |-> r.name,
     namespace |-> r.namespace,
     ownerReferences |-> << >>,
     selector |-> PodLabels(r),
     ports |-> << [name |-> r.name,
                   port |-> ServicePort,
                   targetPort |-> ServiceTargetPort,
                   protocol |-> "TCP"] >>]

\* An Ingress named after its host instead of the request.
BuildIngressNamedAfterHost(r, m) ==
    [kind |-> "Ingress",
     apiVersion |-> "v1",
     name |-> m.spec.host,
     namespace |-> r.namespace,
     ownerReferences |-> << >>,
     rules |-> << [host |-> m.spec.host,
                   paths |-> << [path |-> "/",
                                 serviceName |-> r.name,
                                 servicePort |-> IngressBackendPort] >>] >>]

\* ingress := v1beta1.Ingress{...}
BuildIngress(r, m) ==
    [kind |-> "Ingress",
     apiVersion |-> "v1",
     name |-> r.name,
     namespace |-> r.namespace,
     ownerReferences |-> << >>,
     rules |-> << [host |-> m.spec.host,
                   paths |-> << [path |-> "/",
                                 serviceName |-> r.name,
                                 servicePort |-> IngressBackendPort] >>] >>]

-----------------------------------------------------------------------------
(* The Store Client (client.Client embedded in MicroServiceReconciler) *)

\* Whether the environment may still make a store call fail transiently.
CanFail == faults < MaxFaults

\* Outcomes of r.Get(cxt, req.NamespacedName, ms): the error and the object read.
GetOutcomes(objs, id) ==
    (IF Exists(objs, id)
        THEN {[err |-> Nil, obj |-> o] : o \in At(objs, id)}
        ELSE {[err |-> NotFound, obj |-> ZeroMicroService]})
    \cup (IF CanFail THEN {[err |-> Unavailable, obj |-> ZeroMicroService]} ELSE {})

\* A create that overwrites the object already stored under the name.
CreateOutcomesOverwriting(objs, obj) ==
    {[err |-> Nil, objs |-> (objs \ At(objs, obj)) \cup {obj}]}
    \cup (IF CanFail
             THEN {[err |-> e, objs |-> objs] : e \in TransientFailures \cup PermanentFailures}
             ELSE {})

\* A create that stores the object without looking for one of the same name.
CreateOutcomesUnchecked(objs, obj) ==
    {[err |-> Nil, objs |-> objs \cup {obj}]}
    \cup (IF CanFail
             THEN {[err |-> e, objs |-> objs] : e \in TransientFailures \cup PermanentFailures}
             ELSE {})

\* Outcomes of r.Create(cxt, &obj): the error and the collection afterwards.
CreateOutcomes(objs, obj) ==
    (IF Exists(objs, obj)
        THEN {[err |-> AlreadyExists, objs |-> objs]}
        ELSE {[err |-> Nil, objs |-> objs \cup {obj}]})
    \cup (IF CanFail
             THEN {[err |-> e, objs |-> objs] : e \in TransientFailures \cup PermanentFailures}
             ELSE {})

\* The record of one Store Client call of the pass in progress.
Call(verb, kind, err) == [verb |-> verb, kind |-> kind, err |-> err]

Injected(err) == IF err \in TransientFailures \cup PermanentFailures THEN 1 ELSE 0

-----------------------------------------------------------------------------
(* Reconcile's answers *)

Return(res, err) == [result |-> res, err |-> err]

\* A Get handler that hands every error of Get, not-found included, back to the
\* controller.
GetFailedReturningEveryError(err) == [result |-> EmptyResult, err |-> err]

\* if err := r.Get(...); err != nil {
\*     if err := client.IgnoreNotFound(err); err != nil { return ctrl.Result{}, nil }
\*     else { return ctrl.Result{}, err }      -- err is the inner, shadowing one
\* }
GetFailed(err) ==
    LET inner == IgnoreNotFound(err)
    IN  IF inner # Nil THEN Return(EmptyResult, Nil) ELSE Return(EmptyResult, inner)

\* A Deployment failure handed back to the controller like the Service's.
DeploymentFailedReturningError(err) == [result |-> EmptyResult, err |-> err]

\* if err := r.Create(cxt, &deployment); err != nil { return ctrl.Result{}, nil }
DeploymentFailed(err) == Return(EmptyResult, Nil)

\* if err := r.Create(cxt, &service); err != nil { return ctrl.Result{}, err }
ServiceFailed(err) == Return(EmptyResult, err)

\* if err := r.Create(cxt, &ingress); err != nil { return ctrl.Result{}, nil }
IngressFailed(err) == Return(EmptyResult, Nil)

\* return ctrl.Result{}, nil
Done == Return(EmptyResult, Nil)

\* The value of result while no pass has returned.
NoReturn == Return(EmptyResult, Nil)

-----------------------------------------------------------------------------
(* Initial state: an empty cluster and an idle controller *)

Init ==
    /\ microservices = {}
    /\ deployments = {}
    /\ services = {}
    /\ ingresses = {}
    /\ queue = {}
    /\ pc = "idle"
    /\ req = ZeroRequest
    /\ ms = ZeroMicroService
    /\ result = NoReturn
    /\ calls = << >>
    /\ pre = NoObjects
    /\ faults = 0
    /\ changes = 0
    /\ pc2 = "idle"
    /\ req2 = ZeroRequest
    /\ ms2 = ZeroMicroService

workerVars == <<pc, req, ms, result, calls, pre, faults>>

-----------------------------------------------------------------------------
(* The user and the event source.  For(&devopsv1.MicroService{}) makes every *)
(* change of a MicroService put its identity into the work queue.            *)

UserCreate(id, spec) ==
    /\ changes < MaxChanges
    /\ changes' = changes + 1
    /\ ~Exists(microservices, id)
    /\ microservices' = microservices \cup
           {[ZeroMicroService EXCEPT !.namespace = id.namespace, !.name = id.name,
                                     !.generation = 1, !.spec = spec]}
    /\ queue' = queue \cup {id}
    /\ UNCHANGED <<deployments, services, ingresses, workerVars, secondVars>>

UserUpdateImage(id, image) ==
    /\ changes < MaxChanges
    /\ changes' = changes + 1
    /\ \E o \in At(microservices, id) :
          /\ o.spec.image # image
          /\ microservices' = (microservices \ {o}) \cup
                 {[o EXCEPT !.spec.image = image, !.generation = @ + 1]}
    /\ queue' = queue \cup {id}
    /\ UNCHANGED <<deployments, services, ingresses, workerVars, secondVars>>

UserDelete(id) ==
    /\ changes < MaxChanges
    /\ changes' = changes + 1
    /\ Exists(microservices, id)
    /\ microservices' = microservices \ At(microservices, id)
    /\ queue' = queue \cup {id}
    /\ UNCHANGED <<deployments, services, ingresses, workerVars, secondVars>>

\* The informer's periodic resync delivers an existing MicroService again.
Resync(id) ==
    /\ Exists(microservices, id)
    /\ id \notin queue
    /\ queue' = queue \cup {id}
    /\ UNCHANGED <<storeVars, workerVars, changes, secondVars>>

\* Another actor (an autoscaler, kubectl scale) sets a Deployment's replica
\* count, a field Reconcile leaves unset.
ExternalScale(id, n) ==
    /\ changes < MaxChanges
    /\ changes' = changes + 1
    /\ \E d \in At(deployments, id) :
          /\ d.replicas # n
          /\ deployments' = (deployments \ {d}) \cup {[d EXCEPT !.replicas = n]}
    /\ UNCHANGED <<microservices, services, ingresses, queue, workerVars, secondVars>>

\* The store's cascading deletion: once a MicroService is gone, the garbage
\* collector removes the objects that carry an owner link to it.
GarbageCollect(id) ==
    /\ ~Exists(microservices, id)
    /\ Exists(deployments, id) \/ Exists(services, id) \/ Exists(ingresses, id)
    /\ deployments' = {d \in deployments : ~OwnedBy(d, id)}
    /\ services' = {o \in services : ~OwnedBy(o, id)}
    /\ ingresses' = {g \in ingresses : ~OwnedBy(g, id)}
    /\ UNCHANGED <<microservices, queue, workerVars, changes, secondVars>>

-----------------------------------------------------------------------------
(* One pass of Reconcile, one Store Client call per step *)

\* The worker takes an identity from the queue and calls Reconcile(req).
ReconcileStart ==
    /\ pc = "idle"
    /\ \E id \in queue :
          /\ queue' = queue \ {id}
          /\ req' = id
          /\ pre' = [microservices |-> At(microservices, id),
                     deployments |-> At(deployments, id),
                     services |-> At(services, id),
                     ingresses |-> At(ingresses, id)]
    /\ pc' = "Get"
    /\ ms' = ZeroMicroService
    /\ result' = NoReturn
    /\ calls' = << >>
    /\ UNCHANGED <<storeVars, faults, changes, secondVars>>

\* r.Get(cxt, req.NamespacedName, ms) and the handling of its error
Get ==
    /\ pc = "Get"
    /\ \E out \in GetOutcomes(microservices, req) :
          /\ calls' = Append(calls, Call("Get", "MicroService", out.err))
          /\ faults' = faults + Injected(out.err)
          /\ IF out.err # Nil
                THEN /\ result' = GetFailed(out.err)
                     /\ pc' = "Return"
                     /\ ms' = ms
                ELSE /\ ms' = out.obj
                     /\ pc' = "CreateDeployment"
                     /\ result' = result
    /\ UNCHANGED <<storeVars, queue, req, pre, changes, secondVars>>

\* A Deployment create whose failure is swallowed without ending the pass.
CreateDeploymentThenGoOn ==
    /\ pc = "CreateDeployment"
    /\ \E out \in CreateOutcomes(deployments, BuildDeployment(req, ms)) :
          /\ deployments' = out.objs
          /\ calls' = Append(calls, Call("Create", "Deployment", out.err))
          /\ faults' = faults + Injected(out.err)
          /\ result' = result
          /\ pc' = "CreateService"
    /\ UNCHANGED <<microservices, services, ingresses, queue, req, ms, pre, changes, secondVars>>

\* r.Create(cxt, &deployment)
CreateDeployment ==
    /\ pc = "CreateDeployment"
    /\ \E out \in CreateOutcomes(deployments, BuildDeployment(req, ms)) :
          /\ deployments' = out.objs
          /\ calls' = Append(calls, Call("Create", "Deployment", out.err))
          /\ faults' = faults + Injected(out.err)
          /\ IF out.err # Nil
                THEN /\ result' = DeploymentFailed(out.err)
                     /\ pc' = "Return"
                ELSE /\ result' = result
                     /\ pc' = "CreateService"
    /\ UNCHANGED <<microservices, services, ingresses, queue, req, ms, pre, changes, secondVars>>

\* A Service create whose failure is recorded but does not end the pass.
CreateServiceThenGoOn ==
    /\ pc = "CreateService"
    /\ \E out \in CreateOutcomes(services, BuildService(req)) :
          /\ services' = out.objs
          /\ calls' = Append(calls, Call("Create", "Service", out.err))
          /\ faults' = faults + Injected(out.err)
          /\ result' = IF out.err # Nil THEN ServiceFailed(out.err) ELSE result
          /\ pc' = "CreateIngress"
    /\ UNCHANGED <<microservices, deployments, ingresses, queue, req, ms, pre, changes, secondVars>>

\* r.Create(cxt, &service)
CreateService ==
    /\ pc = "CreateService"
    /\ \E out \in CreateOutcomes(services, BuildService(req)) :
          /\ services' = out.objs
          /\ calls' = Append(calls, Call("Create", "Service", out.err))
          /\ faults' = faults + Injected(out.err)
          /\ IF out.err # Nil
                THEN /\ result' = ServiceFailed(out.err)
                     /\ pc' = "Return"
                ELSE /\ result' = result
                     /\ pc' = "CreateIngress"
    /\ UNCHANGED <<microservices, deployments, ingresses, queue, req, ms, pre, changes, secondVars>>

\* r.Create(cxt, &ingress) and the final return
CreateIngress ==
    /\ pc = "CreateIngress"
    /\ \E out \in CreateOutcomes(ingresses, BuildIngress(req, ms)) :
          /\ ingresses' = out.objs
          /\ calls' = Append(calls, Call("Create", "Ingress", out.err))
          /\ faults' = faults + Injected(out.err)
          /\ result' = IF out.err # Nil THEN IngressFailed(out.err) ELSE Done
          /\ pc' = "Return"
    /\ UNCHANGED <<microservices, deployments, services, queue, req, ms, pre, changes, secondVars>>

\* Whether the controller puts the identity back into the queue: on an error,
\* or when the result asks for it.
Requeues(ret) == ret.err # Nil \/ ret.result.Requeue \/ ret.result.RequeueAfter > 0

\* Reconcile has returned: the controller requeues the identity or forgets it,
\* and the worker is free again.
Finish ==
    /\ pc = "Return"
    /\ queue' = IF Requeues(result) THEN queue \cup {req} ELSE queue
    /\ pc' = "idle"
    /\ req' = ZeroRequest
    /\ ms' = ZeroMicroService
    /\ result' = NoReturn
    /\ calls' = << >>
    /\ pre' = NoObjects
    /\ UNCHANGED <<storeVars, faults, changes, secondVars>>

Reconcile == ReconcileStart \/ Get \/ CreateDeployment \/ CreateService
                 \/ CreateIngress \/ Finish

User ==
    \E id \in Identities :
        \/ \E spec \in MicroServiceSpecs : UserCreate(id, spec)
        \/ \E image \in Images : UserUpdateImage(id, image)
        \/ UserDelete(id)
        \/ Resync(id)

Store ==
    \E id \in Identities :
        \/ GarbageCollect(id)
        \/ \E n \in ReplicaCounts : ExternalScale(id, n)

Next == Reconcile \/ User \/ Store

Spec == Init /\ [][Next]_vars

-----------------------------------------------------------------------------
(* A controller with a second worker (MaxConcurrentReconciles: 2) whose work  *)
(* queue does not keep an identity away from one worker while the other is    *)
(* still reconciling it.  The second worker runs the same Reconcile; only its *)
(* position and its fetched MicroService are kept.                            *)

\* The second worker goes back to the queue with what Reconcile returned.
SecondReturns(ret) ==
    /\ queue' = IF Requeues(ret) THEN queue \cup {req2} ELSE queue
    /\ pc2' = "idle"
    /\ req2' = ZeroRequest
    /\ ms2' = ZeroMicroService

\* The second worker takes an identity from the queue; r.Get and its error.
SecondGet ==
    /\ pc2 = "idle"
    /\ \E id \in queue :
          \E out \in GetOutcomes(microservices, id) :
              /\ faults' = faults + Injected(out.err)
              /\ IF out.err # Nil
                    THEN /\ queue' = IF Requeues(GetFailed(out.err))
                                         THEN queue ELSE queue \ {id}
                         /\ UNCHANGED secondVars
                    ELSE /\ queue' = queue \ {id}
                         /\ pc2' = "CreateDeployment"
                         /\ req2' = id
                         /\ ms2' = out.obj
    /\ UNCHANGED <<storeVars, pc, req, ms, result, calls, pre, changes>>

\* r.Create(cxt, &deployment), second worker
SecondCreateDeployment ==
    /\ pc2 = "CreateDeployment"
    /\ \E out \in CreateOutcomes(deployments, BuildDeployment(req2, ms2)) :
          /\ deployments' = out.objs
          /\ faults' = faults + Injected(out.err)
          /\ IF out.err # Nil
                THEN SecondReturns(DeploymentFailed(out.err))
                ELSE /\ pc2' = "CreateService"
                     /\ UNCHANGED <<queue, req2, ms2>>
    /\ UNCHANGED <<microservices, services, ingresses, pc, req, ms, result, calls,
                   pre, changes>>

\* r.Create(cxt, &service), second worker
SecondCreateService ==
    /\ pc2 = "CreateService"
    /\ \E out \in CreateOutcomes(services, BuildService(req2)) :
          /\ services' = out.objs
          /\ faults' = faults + Injected(out.err)
          /\ IF out.err # Nil
                THEN SecondReturns(ServiceFailed(out.err))
                ELSE /\ pc2' = "CreateIngress"
                     /\ UNCHANGED <<queue, req2, ms2>>
    /\ UNCHANGED <<microservices, deployments, ingresses, pc, req, ms, result, calls,
                   pre, changes>>

\* r.Create(cxt, &ingress) and the final return, second worker
SecondCreateIngress ==
    /\ pc2 = "CreateIngress"
    /\ \E out \in CreateOutcomes(ingresses, BuildIngress(req2, ms2)) :
          /\ ingresses' = out.objs
          /\ faults' = faults + Injected(out.err)
          /\ SecondReturns(IF out.err # Nil THEN IngressFailed(out.err) ELSE Done)
    /\ UNCHANGED <<microservices, deployments, services, pc, req, ms, result, calls,
                   pre, changes>>

SecondReconcile ==
    SecondGet \/ SecondCreateDeployment \/ SecondCreateService \/ SecondCreateIngress

\* Bounds of the two-worker runs: changes by users, injected store failures.
\* Identities reach the queue by the users' changes and by requeues; the
\* informer's resync, hours apart, is left to the one-worker runs.
MaxOverlapChanges == 2
MaxOverlapFaults == 1

WithinOverlapBounds == changes' <= MaxOverlapChanges /\ faults' <= MaxOverlapFaults

ConcurrentNext ==
    \/ ReconcileStart /\ WithinOverlapBounds
    \/ Get /\ WithinOverlapBounds
    \/ CreateDeployment /\ WithinOverlapBounds
    \/ CreateService /\ WithinOverlapBounds
    \/ CreateIngress /\ WithinOverlapBounds
    \/ Finish /\ WithinOverlapBounds
    \/ SecondGet /\ WithinOverlapBounds
    \/ SecondCreateDeployment /\ WithinOverlapBounds
    \/ SecondCreateService /\ WithinOverlapBounds
    \/ SecondCreateIngress /\ WithinOverlapBounds
    \/ \E id \in Identities :
          \/ \E spec \in MicroServiceSpecs : UserCreate(id, spec) /\ WithinOverlapBounds
          \/ \E image \in Images : UserUpdateImage(id, image) /\ WithinOverlapBounds
          \/ UserDelete(id) /\ WithinOverlapBounds

ConcurrentSpec == Init /\ [][ConcurrentNext]_vars

\* The worker keeps running, so a pass that can take its next step takes it,
\* the informer keeps resyncing every MicroService that exists, and the
\* store's garbage collector keeps running.
FairSpec ==
    /\ Spec
    /\ WF_vars(Reconcile)
    /\ \A id \in Identities : WF_vars(Resync(id))
    /\ \A id \in Identities : WF_vars(GarbageCollect(id))

-----------------------------------------------------------------------------
(* Vocabulary of the properties *)

Dependents == {"Deployment", "Service", "Ingress"}

CallIndexes == 1..Len(calls)

\* The pass in progress has returned, and its calls and result are final.
Returned == pc = "Return"

\* The pass fetched an existing MicroService.
Fetched == Len(calls) >= 1 /\ calls[1] = Call("Get", "MicroService", Nil)

\* The mutating Store Client calls of the pass, successful or not.
Mutating == SelectSeq(calls, LAMBDA c : c.verb # "Get")

Attempted(kind) == \E i \in CallIndexes : calls[i].verb # "Get" /\ calls[i].kind = kind

Created(kind) == \E i \in CallIndexes : calls[i] = Call("Create", kind, Nil)

Updated(kind) == \E i \in CallIndexes : calls[i].verb = "Update" /\ calls[i].kind = kind

\* No store call of the pass failed for a reason other than the state of the
\* store (not-found, already-exists).
NoTransientFailure ==
    \A i \in CallIndexes : calls[i].err \notin TransientFailures \cup PermanentFailures

NoFailure == \A i \in CallIndexes : calls[i].err = Nil

Success == Return(EmptyResult, Nil)

AllExist(id) ==
    Exists(deployments, id) /\ Exists(services, id) /\ Exists(ingresses, id)

\* The MicroService of the pass is the one the pass began with.
SpecUnchanged == At(microservices, req) = pre.microservices

\* When the pass began, all three dependents existed and matched the spec.
PreConverged ==
    \E m \in pre.microservices :
        /\ pre.deployments = {BuildDeployment(req, m)}
        /\ pre.services = {BuildService(req)}
        /\ pre.ingresses = {BuildIngress(req, m)}

\* When the pass began, all three dependents existed and only the Deployment's
\* image differed from the spec.
PreImageChanged ==
    \E m \in pre.microservices :
        /\ pre.services = {BuildService(req)}
        /\ pre.ingresses = {BuildIngress(req, m)}
        /\ \E i \in Images \ {m.spec.image} :
              pre.deployments = {BuildDeployment(req, [m EXCEPT !.spec.image = i])}

-----------------------------------------------------------------------------
(* Properties *)

\* C1 (idempotence): a pass over an identity whose Deployment, Service and
\* Ingress all exist and match its unchanged spec issues no mutating Store
\* Client call, successful or not.
C1_Idempotence ==
    (pc # "idle" /\ PreConverged /\ SpecUnchanged) => Mutating = << >>

\* C2 (convergence from partial state): a pass that fetched the MicroService
\* and met no transient store failure has created exactly the dependents that
\* were missing when it began, has issued no mutating call against those that
\* existed, and leaves all three existing.
C2_ConvergenceFromPartialState ==
    (Returned /\ Fetched /\ NoTransientFailure) =>
        /\ Created("Deployment") <=> pre.deployments = {}
        /\ Created("Service") <=> pre.services = {}
        /\ Created("Ingress") <=> pre.ingresses = {}
        /\ pre.deployments # {} => ~Attempted("Deployment")
        /\ pre.services # {} => ~Attempted("Service")
        /\ pre.ingresses # {} => ~Attempted("Ingress")
        /\ AllExist(req)

\* C3 (independent attempts): a pass that fetched the MicroService has
\* attempted a create for each of the three kinds, whichever of them failed.
C3_AllThreeAttempted ==
    (Returned /\ Fetched) => \A kind \in Dependents : Attempted(kind)

\* C4 (no suppressed error): a pass in which a store call for a dependent
\* returned an error does not return the success outcome.
C4_NoSuppressedError ==
    (Returned /\ \E i \in CallIndexes :
                    calls[i].kind \in Dependents /\ calls[i].err # Nil)
        => result # Success

\* C5 (recovery after a transient Service failure): a pass whose Service
\* create failed transiently returns retry; from then on the Service is
\* eventually created, so that all three dependents exist (unless the
\* MicroService is deleted); and a pass that begins with the Deployment
\* present and the Service missing issues no create for the Deployment.
C5_ServiceFailed(id) ==
    Returned /\ req = id
        /\ \E i \in CallIndexes : calls[i] = Call("Create", "Service", Unavailable)

C5_RecoveryAfterServiceFailure ==
    \A id \in Identities :
        /\ [](C5_ServiceFailed(id) => Requeues(result))
        /\ C5_ServiceFailed(id) ~> (AllExist(id) \/ ~Exists(microservices, id))
        /\ []((pc # "idle" /\ req = id /\ pre.deployments # {} /\ pre.services = {})
                 => ~Attempted("Deployment"))

\* C6 (selective update): when all three dependents exist and only spec.image
\* has changed, the pass updates the Deployment, whose container image then
\* equals spec.image, and issues no mutating call on the Service or Ingress.
C6_SelectiveUpdate ==
    (Returned /\ Fetched /\ PreImageChanged /\ SpecUnchanged /\ NoTransientFailure) =>
        /\ Updated("Deployment")
        /\ \A d \in At(deployments, req) : d.containers[1].image = ms.spec.image
        /\ ~Attempted("Service")
        /\ ~Attempted("Ingress")

\* C7 (benign not-found): a pass whose Get found no MicroService returns
\* success, with no requeue and a nil error, and issues no mutating call.
C7_BenignNotFound ==
    (Returned /\ calls[1] = Call("Get", "MicroService", NotFound)) =>
        /\ result = Success
        /\ ~Requeues(result)
        /\ Mutating = << >>

C7_Witness ==
    /\ Returned
    /\ calls = << Call("Get", "MicroService", NotFound) >>
    /\ ~Exists(microservices, req)

\* C8 (retry on a failed fetch): a pass whose Get failed with an error other
\* than not-found returns a retry outcome, a non-nil error or a requeue.
C8_FetchFailureRetried ==
    (Returned /\ calls[1].verb = "Get" /\ calls[1].err \notin {Nil, NotFound})
        => Requeues(result)

\* C9 (first reconcile from empty state): a pass that began with no dependent
\* of its identity and met no store failure ends with exactly one Deployment,
\* one Service and one Ingress of that name and namespace, with the fields of
\* the design's mapping rules, and returns success.
C9_FirstReconcile ==
    (Returned /\ Fetched /\ NoFailure
       /\ pre.deployments = {} /\ pre.services = {} /\ pre.ingresses = {}) =>
        /\ result = Success
        /\ Cardinality(At(deployments, req)) = 1
        /\ Cardinality(At(services, req)) = 1
        /\ Cardinality(At(ingresses, req)) = 1
        /\ \A d \in At(deployments, req) :
              /\ d.templateLabels = [app |-> req.name]
              /\ Len(d.containers) = 1
              /\ d.containers[1].name = req.name
              /\ d.containers[1].image = ms.spec.image
              /\ d.containers[1].imagePullPolicy = "Always"
              /\ d.containers[1].ports = << [containerPort |-> 8080] >>
        /\ \A s \in At(services, req) :
              /\ s.selector = [app |-> req.name]
              /\ Len(s.ports) = 1
              /\ s.ports[1].port = 80
              /\ s.ports[1].targetPort = 8080
              /\ s.ports[1].protocol = "TCP"
        /\ \A g \in At(ingresses, req) :
              /\ Len(g.rules) = 1
              /\ g.rules[1].host = ms.spec.host
              /\ g.rules[1].paths =
                     << [path |-> "/", serviceName |-> req.name, servicePort |-> 80] >>

C9_Witness ==
    /\ Returned
    /\ pre.deployments = {} /\ pre.services = {} /\ pre.ingresses = {}
    /\ Len(calls) = 4
    /\ NoFailure
    /\ AllExist(req)

\* C10 (pull secret only when set): the Deployment a pass has just created
\* carries an image-pull-secret entry if and only if spec.secret is non-empty.
C10_PullSecretIffSet ==
    pc = "CreateService" =>
        \A d \in At(deployments, req) :
            Len(d.imagePullSecrets) > 0 <=> ms.spec.secret # ""

\* C12 (owner link): every Deployment, Service and Ingress in the store, all
\* of them created by Reconcile, carries an owner link to the MicroService of
\* its name and namespace.
C12_OwnerLink ==
    /\ \A d \in deployments : OwnedBy(d, [namespace |-> d.namespace, name |-> d.name])
    /\ \A s \in services : OwnedBy(s, [namespace |-> s.namespace, name |-> s.name])
    /\ \A g \in ingresses : OwnedBy(g, [namespace |-> g.namespace, name |-> g.name])

\* C13 (teardown on deletion): once a MicroService is gone while dependents
\* of its identity exist, eventually none of them exists (unless a
\* MicroService of that identity is created again).
C13_Orphaned(id) ==
    /\ ~Exists(microservices, id)
    /\ Exists(deployments, id) \/ Exists(services, id) \/ Exists(ingresses, id)

C13_TeardownOnDeletion ==
    \A id \in Identities :
        C13_Orphaned(id) ~>
            (\/ Exists(microservices, id)
             \/ ~(Exists(deployments, id) \/ Exists(services, id) \/ Exists(ingresses, id)))

\* C14 (status on success): a pass that fetched the MicroService, met no
\* store failure and returns success has written a status to the
\* MicroService: condition Ready, observedGeneration the generation it
\* reconciled.
C14_ReadyStatusOnSuccess ==
    (Returned /\ Fetched /\ NoFailure /\ result = Success) =>
        /\ \E i \in CallIndexes : calls[i].verb # "Get" /\ calls[i].kind = "MicroService"
        /\ \A m \in At(microservices, req) :
              m.generation = ms.generation =>
                  /\ m.status.condition = "Ready"
                  /\ m.status.observedGeneration = ms.generation

\* C15 (permanent failure): a pass in which the create of a dependent failed
\* permanently records an Error status on the MicroService and returns an
\* outcome that does not requeue the identity.
C15_PermanentFailureNotRetried ==
    (Returned /\ \E i \in CallIndexes :
                    calls[i].kind \in Dependents /\ calls[i].err \in PermanentFailures) =>
        /\ ~Requeues(result)
        /\ \A m \in At(microservices, req) : m.status.condition = "Error"

\* C16 (fields of other owners): no step of a Reconcile pass changes the
\* replica count of a Deployment that exists, whoever set it.
C16_ReplicasUntouched ==
    [][Reconcile =>
          \A d \in deployments :
              \E e \in deployments' :
                  e.namespace = d.namespace /\ e.name = d.name /\ e.replicas = d.replicas]_vars

C16_Witness ==
    /\ Returned
    /\ Attempted("Deployment")
    /\ \E d \in At(deployments, req) : d.replicas \in ReplicaCounts /\ d \in pre.deployments

\* C18 (which failures are returned): a pass returns a non-nil error if and
\* only if its Service create failed; a failed Get, Deployment create or
\* Ingress create is answered with success.
C18_ServiceCreateFailed ==
    \E i \in CallIndexes : calls[i].kind = "Service" /\ calls[i].err # Nil

C18_ErrorIffServiceFailed ==
    Returned =>
        /\ result.err # Nil <=> C18_ServiceCreateFailed
        /\ ~C18_ServiceCreateFailed => result = Success
        /\ result.result = EmptyResult

C18_Witness ==
    /\ Returned
    /\ calls[Len(calls)] = Call("Create", "Service", Unavailable)
    /\ result.err = Unavailable

\* C19 (order of the calls): the mutating calls of a pass are Creates only, of
\* the Deployment, then the Service, then the Ingress, at most three, and none
\* follows a Create that failed.
C19_Order == << "Deployment", "Service", "Ingress" >>

C19_CreatesInOrderUntilFailure ==
    /\ Len(Mutating) <= 3
    /\ \A i \in 1..Len(Mutating) :
          /\ Mutating[i].verb = "Create"
          /\ Mutating[i].kind = C19_Order[i]
          /\ i < Len(Mutating) => Mutating[i].err = Nil
    /\ Len(calls) >= 1 => calls[1].verb = "Get" /\ Len(Mutating) = Len(calls) - 1
    /\ (Len(Mutating) >= 1 /\ Mutating[Len(Mutating)].err # Nil) => Returned

C19_Witness ==
    /\ Returned
    /\ Len(Mutating) = 2
    /\ Mutating[1] = Call("Create", "Deployment", Nil)
    /\ Mutating[2].kind = "Service"
    /\ Mutating[2].err # Nil

\* C20 (existence chain): for every identity the Ingress exists only if the
\* Service exists, and the Service only if the Deployment exists.
C20_ExistenceChain ==
    \A id \in Identities :
        /\ Exists(ingresses, id) => Exists(services, id)
        /\ Exists(services, id) => Exists(deployments, id)

C20_Witness ==
    \E id \in Identities :
        /\ Exists(deployments, id)
        /\ Exists(services, id)
        /\ ~Exists(ingresses, id)
        /\ pc = "idle"
        /\ faults > 0

\* C11 (one dependent per kind): for every identity at most one Deployment,
\* one Service and one Ingress exists; every dependent is stored under the
\* name and namespace of a MicroService identity, and what a pass created is
\* stored under the identity of its request.  Checked with two workers whose
\* passes for the same identity interleave.
C11_Key(o) == [namespace |-> o.namespace, name |-> o.name]

C11_AtMostOnePerKind ==
    /\ \A id \in Identities :
          /\ Cardinality(At(deployments, id)) <= 1
          /\ Cardinality(At(services, id)) <= 1
          /\ Cardinality(At(ingresses, id)) <= 1
    /\ \A o \in deployments : C11_Key(o) \in Identities
    /\ \A o \in services : C11_Key(o) \in Identities
    /\ \A o \in ingresses : C11_Key(o) \in Identities
    /\ Created("Deployment") => Exists(deployments, req)
    /\ Created("Service") => Exists(services, req)
    /\ Created("Ingress") => Exists(ingresses, req)

\* Both workers fetched the same identity with different specs before either
\* created the Deployment; the second worker created it, the first was refused.
C11_Witness ==
    /\ req2 = req
    /\ ms2.spec # ms.spec
    /\ pc2 = "CreateService"
    /\ pre.deployments = {}
    /\ Returned
    /\ calls[Len(calls)] = Call("Create", "Deployment", AlreadyExists)
    /\ At(deployments, req) = {BuildDeployment(req2, ms2)}

\* C17 (independence of identities): every step of a pass reads and writes
\* only objects stored under the identity of its request, whatever the other
\* worker and the users do to other identities in between.
C17_Touched(objs, objsAfter) == (objsAfter \ objs) \cup (objs \ objsAfter)

C17_WritesOnly(id) ==
    /\ microservices' = microservices
    /\ \A o \in C17_Touched(deployments, deployments') : C11_Key(o) = id
    /\ \A o \in C17_Touched(services, services') : C11_Key(o) = id
    /\ \A o \in C17_Touched(ingresses, ingresses') : C11_Key(o) = id

C17_Errors(outcomes) == {o.err : o \in outcomes}

C17_ReadsOnly(id, m) ==
    /\ GetOutcomes(microservices, id) = GetOutcomes(At(microservices, id), id)
    /\ C17_Errors(CreateOutcomes(deployments, BuildDeployment(id, m)))
           = C17_Errors(CreateOutcomes(At(deployments, id), BuildDeployment(id, m)))
    /\ C17_Errors(CreateOutcomes(services, BuildService(id)))
           = C17_Errors(CreateOutcomes(At(services, id), BuildService(id)))
    /\ C17_Errors(CreateOutcomes(ingresses, BuildIngress(id, m)))
           = C17_Errors(CreateOutcomes(At(ingresses, id), BuildIngress(id, m)))

====
